---- MODULE Spec2Model ----
(***************************************************************************)
(* Model of the anomaly-dashboard generator: main.py (the Panel Planner),  *)
(* anomaly_detection.py (the Query Template Engine), kusto_connection.py   *)
(* (the Window Estimator and schema discovery) and dashboard.py (the       *)
(* Dashboard Assembler).                                                   *)
(*                                                                         *)
(* Strings the code only copies or concatenates are TLA+ strings.  Strings *)
(* the code inspects character by character (the base query in             *)
(* extract_table_name, the dashboard title in create_dashboard) are        *)
(* sequences of one-character strings.  A rendered query is the sequence   *)
(* of the pieces its f-string is made of: the literal segments and the     *)
(* interpolated values, with every "${name}" token a piece of its own.     *)
(***************************************************************************)
EXTENDS Integers, Sequences, FiniteSets, TLC

VARIABLES
    cfg,                  \* config.py: the settings that are set (non-empty)
    base_query,           \* config.BASE_QUERY, a sequence of characters
    pc,                   \* position of main()
    table_names,          \* main.py:49
    dashboard_title,      \* main.py:52
    all_columns,          \* main.py:55
    variable_definitions, \* main.py:67
    queries_and_titles,   \* main.py:68
    idx,                  \* position of the running "for dimension_column" loop
    calls,                \* the calls made to the engine and the hosting service
    output,               \* what the run printed
    posted,               \* the documents handed to requests.post
    call,                 \* pure-function checks: the function and its arguments
    ret                   \* pure-function checks: what the call returned

vars == <<cfg, base_query, pc, table_names, dashboard_title, all_columns,
          variable_definitions, queries_and_titles, idx, calls, output, posted,
          call, ret>>

mainVars == <<cfg, base_query, pc, table_names, dashboard_title, all_columns,
              variable_definitions, queries_and_titles, idx, calls, output, posted>>

-----------------------------------------------------------------------------
(* Python values *)

\* Python's None; no function of the program returns this string as a str.
None == "<None>"

\* What an f-string renders for a value: str(None) is "None".
Str(x) == IF x = None THEN "None" ELSE x

\* Truth value of an optional str: None and "" are false.
Truthy(x) == x # None /\ x # ""

\* Truth value of an optional list: None and [] are false.
TruthyList(x) == x # None /\ x # <<>>

\* The call raised instead of returning.
Raised == "<raised>"

RECURSIVE JoinStr(_, _)
\* sep.join(parts) for a list of str
JoinStr(parts, sep) ==
    IF parts = <<>> THEN ""
    ELSE IF Len(parts) = 1 THEN parts[1]
    ELSE parts[1] \o sep \o JoinStr(Tail(parts), sep)

RECURSIVE Flatten(_)
\* concatenation of a list of lists
Flatten(ss) == IF ss = <<>> THEN <<>> ELSE Head(ss) \o Flatten(Tail(ss))

-----------------------------------------------------------------------------
(* Window Estimator: kusto_connection.extract_dt *)

\* What the engine answers to the gap query of extract_dt: the call fails,
\* the response has no result table, the table has no row (the series has
\* fewer than two rows), or one row holding the gap in whole seconds.
Fail == [kind |-> "fail", seconds |-> 0]
NoTable == [kind |-> "no_table", seconds |-> 0]
NoRow == [kind |-> "no_row", seconds |-> 0]
Gap(T) == [kind |-> "gap", seconds |-> T]

\* pd.Timedelta(gap): .days and .seconds of a non-negative whole-second gap
Timedelta(T) == [days |-> T \div 86400, seconds |-> T % 86400]

\* kusto_connection.py:105-126 with hours and minutes taken wrongly
extract_dt_format_mutant(time_difference) ==
    LET days == time_difference.days
        seconds == time_difference.seconds
        hours == seconds \div 3600
        minutes == seconds \div 60
        secs == seconds % 60
        time_components ==
            (IF days > 0 THEN <<ToString(days) \o "d">> ELSE <<>>)
            \o (IF hours > 0 THEN <<ToString(hours) \o "h">> ELSE <<>>)
            \o (IF minutes > 0 THEN <<ToString(minutes) \o "m">> ELSE <<>>)
            \o (IF secs > 0 THEN <<ToString(secs) \o "s">> ELSE <<>>)
    IN  IF time_components = <<>> THEN "1d" ELSE JoinStr(time_components, " ")

\* kusto_connection.py:105-126
extract_dt_format(time_difference) ==
    LET days == time_difference.days
        seconds == time_difference.seconds
        hours == seconds \div 3600
        minutes == (seconds % 3600) \div 60
        secs == seconds % 60
        time_components ==
            (IF days > 0 THEN <<ToString(days) \o "d">> ELSE <<>>)
            \o (IF hours > 0 THEN <<ToString(hours) \o "h">> ELSE <<>>)
            \o (IF minutes > 0 THEN <<ToString(minutes) \o "m">> ELSE <<>>)
            \o (IF secs > 0 THEN <<ToString(secs) \o "s">> ELSE <<>>)
    IN  IF time_components = <<>> THEN "1d" ELSE JoinStr(time_components, " ")

\* rows without its k-th row
RemoveAt(rows, k) == SubSeq(rows, 1, k - 1) \o SubSeq(rows, k + 1, Len(rows))

RECURSIVE sort_desc(_)
\* kusto_connection.py:80, '| sort by ts desc' on the timestamps of the series
sort_desc(rows) ==
    IF rows = <<>> THEN <<>>
    ELSE LET k == CHOOSE k \in 1..Len(rows) : \A j \in 1..Len(rows) : rows[j] <= rows[k]
         IN  <<rows[k]>> \o sort_desc(RemoveAt(rows, k))

\* The gap query over the distinct timestamps of the series
gap_query_mutant(series) ==
    LET distinct == SelectSeq([k \in 1..Len(series) |->
                                  IF \E j \in 1..(k - 1) : series[j] = series[k]
                                  THEN -1 ELSE series[k]],
                              LAMBDA t : t >= 0)
        sorted == sort_desc(distinct)
    IN  IF Len(sorted) < 2 THEN NoRow ELSE Gap(sorted[1] - sorted[2])

\* kusto_connection.py:77-85, the gap query as the engine evaluates it on the
\* timestamps (whole seconds) of the series: the rows sorted newest first, each
\* paired with the timestamp of the row after it, the last row (no next row)
\* dropped, the first remaining row kept, its difference projected
gap_query(series) ==
    LET sorted == sort_desc(series)
    IN  IF Len(sorted) < 2 THEN NoRow ELSE Gap(sorted[1] - sorted[2])

\* extract_dt for an engine reply other than Fail (a failed call raises)
extract_dt(reply) ==
    IF reply = NoTable THEN None
    ELSE IF reply = NoRow THEN None
    ELSE extract_dt_format(Timedelta(reply.seconds))

-----------------------------------------------------------------------------
(* Dashboard identifier: dashboard.create_dashboard, line 38 *)

Upper == <<"A", "B", "C", "D", "E", "F", "G", "H", "I", "J", "K", "L", "M",
           "N", "O", "P", "Q", "R", "S", "T", "U", "V", "W", "X", "Y", "Z">>
Lower == <<"a", "b", "c", "d", "e", "f", "g", "h", "i", "j", "k", "l", "m",
           "n", "o", "p", "q", "r", "s", "t", "u", "v", "w", "x", "y", "z">>
Digits == {"0", "1", "2", "3", "4", "5", "6", "7", "8", "9"}

IsUpper(c) == \E k \in 1..26 : Upper[k] = c
IsLower(c) == \E k \in 1..26 : Lower[k] = c

\* the regex class \w (and \W, its complement) on ASCII text
IsWord(c) == IsUpper(c) \/ IsLower(c) \/ c \in Digits \/ c = "_"

\* str.lower() of one character
LowerChar(c) == IF IsUpper(c) THEN Lower[CHOOSE k \in 1..26 : Upper[k] = c] ELSE c

\* str.lower()
lower(s) == [k \in 1..Len(s) |-> LowerChar(s[k])]

RECURSIVE sub_nonword_each(_)
\* re.sub(r'\W', '-', s): every non-word character replaced, runs not collapsed
sub_nonword_each(s) ==
    IF s = <<>> THEN <<>>
    ELSE (IF IsWord(Head(s)) THEN <<Head(s)>> ELSE <<"-">>) \o sub_nonword_each(Tail(s))

RECURSIVE sub_nonword_runs(_)
\* re.sub(r'\W+', '-', s): each maximal run of non-word characters replaced by one '-'
sub_nonword_runs(s) ==
    IF s = <<>> THEN <<>>
    ELSE IF IsWord(Head(s)) THEN <<Head(s)>> \o sub_nonword_runs(Tail(s))
    ELSE IF Len(s) > 1 /\ ~IsWord(s[2]) THEN sub_nonword_runs(Tail(s))
    ELSE <<"-">> \o sub_nonword_runs(Tail(s))

RECURSIVE lstrip(_, _)
\* str.lstrip(c)
lstrip(s, c) == IF s # <<>> /\ Head(s) = c THEN lstrip(Tail(s), c) ELSE s

RECURSIVE rstrip(_, _)
\* str.rstrip(c)
rstrip(s, c) ==
    IF s # <<>> /\ s[Len(s)] = c THEN rstrip(SubSeq(s, 1, Len(s) - 1), c) ELSE s

\* str.strip(c)
strip(s, c) == rstrip(lstrip(s, c), c)

\* dashboard.py:38
dashboard_uid(title) == strip(sub_nonword_runs(lower(title)), "-")

-----------------------------------------------------------------------------
(* Query Template Engine: anomaly_detection.py *)

\* The token f'${{{name}}}' renders: "${name}"
Placeholder(name) == "${" \o name \o "}"

\* The threshold placeholder written in the templates as ${{AnomalyThreshold}}
ThresholdToken == "${AnomalyThreshold}"

\* anomaly_detection.py:26-30 and 73-77
where_clause(dimension_column) ==
    IF Truthy(dimension_column)
    THEN <<"| where tostring(", dimension_column, ") == \"",
           Placeholder(dimension_column), "\"">>
    ELSE <<>>

\* {', tostring(' + dimension_column + ')' if dimension_column else ''}
dimension_projection_of(dimension_column) ==
    IF Truthy(dimension_column) THEN <<", tostring(", dimension_column, ")">> ELSE <<>>

\* The first three lines every template shares (e.g. lines 33-35): dt, min_t, max_t
Preamble(bq, time_column, dt) ==
    <<"let dt = ", Str(dt), ";\n    let min_t = toscalar(", bq, " | summarize min(",
      time_column, "));\n    let max_t = toscalar(", bq, " | summarize max(",
      time_column, "));\n    ">>

\* The make-series line every template shares (e.g. line 37)
MakeSeries(value_column, time_column) ==
    <<"\n    | make-series num=avg(todouble(", value_column, ")) on ", time_column,
      " from min_t to max_t step dt\n    ">>

\* The series_decompose_anomalies line of the three count templates (e.g. line 132)
ExtendAnomalies ==
    <<"| extend Anomalies = series_decompose_anomalies(num, todouble(\"",
      ThresholdToken, "\"), -1, 'linefit')\n    ">>

\* anomaly_detection.py:5-49; reply is the engine's answer inside extract_dt
generate_series_decomposition_query(bq, cols, dimension_column, reply) ==
    LET time_column == cols[1]
        value_column == cols[2]
    IN  Preamble(bq, time_column, extract_dt(reply))
        \o <<"let decomposed_data = ", bq>>
        \o MakeSeries(value_column, time_column)
        \o <<"| extend (Baseline, Seasonal, Trend, Residual) = series_decompose(num, -1, 'linefit')\n    | mv-expand ",
             time_column,
             " to typeof(datetime), num to typeof(real), Seasonal to typeof(real), Trend to typeof(real)\n    | project ",
             time_column, ", Trend, Seasonal;\n    let joined_data = ", bq,
             "\n    | join kind=leftouter decomposed_data on ", time_column,
             ";\n    let decomposed_by_", Str(dimension_column),
             " = joined_data\n    | project ", time_column, ", ", value_column,
             ", Seasonal, Trend">>
        \o dimension_projection_of(dimension_column)
        \o <<"\n    ">>
        \o where_clause(dimension_column)
        \o <<";\n    decomposed_by_", Str(dimension_column)>>

\* anomaly_detection.py:53-96
generate_series_decompose_anomalies_query(bq, cols, dimension_column, reply) ==
    LET time_column == cols[1]
        value_column == cols[2]
    IN  Preamble(bq, time_column, extract_dt(reply))
        \o <<"let anomalies_data = ", bq>>
        \o MakeSeries(value_column, time_column)
        \o <<"| extend (Anomalies, AnomalyScore) = series_decompose_anomalies(num, todouble(\"",
             ThresholdToken, "\"), -1, 'linefit')\n    | mv-expand ", time_column,
             " to typeof(datetime), Anomalies to typeof(real), AnomalyScore to typeof(real)\n    | project ",
             time_column, ", Anomalies, AnomalyScore;\n    let joined_data = ", bq,
             "\n    | join kind=leftouter anomalies_data on ", time_column,
             ";\n    let anomalies_by_", Str(dimension_column),
             " = joined_data\n    | project ", time_column, ", ", value_column,
             ", Anomalies, AnomalyScore">>
        \o dimension_projection_of(dimension_column)
        \o <<"\n    ">>
        \o where_clause(dimension_column)
        \o <<";\n    anomalies_by_", Str(dimension_column)>>

\* An optional list argument (dimension_columns=None): left out, or given
Absent == [given |-> FALSE, items |-> <<>>]
Given(list) == [given |-> TRUE, items |-> list]

\* dimension_columns = dimension_columns or []   (lines 117 and 199)
OrEmpty(dimension_columns) ==
    IF dimension_columns.given /\ dimension_columns.items # <<>>
    THEN dimension_columns.items
    ELSE <<>>

\* anomaly_detection.py:116-121: the per-segment variant is skipped
segment_skip(dimension_columns) == OrEmpty(dimension_columns) = <<>>

\* anomaly_detection.py:99-142
generate_anomaly_count_per_segment_query(bq, cols, dimension_columns, reply) ==
    LET time_column == cols[1]
        value_column == cols[2]
        dims == OrEmpty(dimension_columns)
        by_clause == JoinStr(dims, ", ")
    IN  IF segment_skip(dimension_columns) THEN None
        ELSE Preamble(bq, time_column, extract_dt(reply))
             \o <<"let anomaly_scores = ", bq>>
             \o MakeSeries(value_column, time_column)
             \o ExtendAnomalies
             \o <<"| mv-expand ", time_column,
                  " to typeof(datetime), Anomalies to typeof(real)\n    | project ",
                  time_column, ", Anomalies;\n    ", bq,
                  "\n    | join kind=leftouter anomaly_scores on ", time_column,
                  "\n    | where Anomalies == 1\n    | summarize AnomalyCount = count() by Anomalies, ",
                  by_clause, "\n    | project AnomalyCount, ", by_clause,
                  "\n    | sort by AnomalyCount desc">>

\* anomaly_detection.py:145-179
generate_anomaly_count_bar_chart(bq, cols, dimension_column, reply) ==
    LET time_column == cols[1]
        value_column == cols[2]
    IN  Preamble(bq, time_column, extract_dt(reply))
        \o <<"let anomalies_data = ", bq>>
        \o MakeSeries(value_column, time_column)
        \o ExtendAnomalies
        \o <<"| mv-expand ", time_column,
             " to typeof(datetime), Anomalies to typeof(real)\n    | project ",
             time_column, ", Anomalies;\n    let joined_data = ", bq,
             "\n    | join kind=leftouter anomalies_data on ", time_column,
             "\n    | where Anomalies == 1;\n    let anomalies_by_", Str(dimension_column),
             " = joined_data\n    | summarize AnomalyCount = count() by tostring(",
             Str(dimension_column), ")\n    | extend Category = tostring(",
             Str(dimension_column), ");\n    anomalies_by_", Str(dimension_column)>>

\* anomaly_detection.py:198-203 with the skip test dropped
barchart_skip_mutant(dimension_columns) == FALSE

\* anomaly_detection.py:198-203: the multi-dimension bar variant is skipped
barchart_skip(dimension_columns) == OrEmpty(dimension_columns) = <<>>

\* anomaly_detection.py:182-236
generate_dimension_anomaly_barchart(bq, cols, dimension_columns, reply) ==
    LET time_column == cols[1]
        value_column == cols[2]
        dims == OrEmpty(dimension_columns)
        dimension_projection == Flatten([k \in 1..Len(dims) |-> <<", ", dims[k]>>])
        summaries == Flatten([k \in 1..Len(dims) |->
            <<"\n    let anomalies_by_", dims[k],
              " = joined_data\n    | summarize AnomalyCount = count() by Dimension = '",
              dims[k], "';\n    ">>])
        union_queries == JoinStr([k \in 1..Len(dims) |-> "anomalies_by_" \o dims[k]],
                                 " | union ")
    IN  IF barchart_skip(dimension_columns) THEN None
        ELSE Preamble(bq, time_column, extract_dt(reply))
             \o <<"let anomalies_data = ", bq>>
             \o MakeSeries(value_column, time_column)
             \o ExtendAnomalies
             \o <<"| mv-expand ", time_column,
                  " to typeof(datetime), Anomalies to typeof(real)\n    | project ",
                  time_column, ", Anomalies;\n    let joined_data = ", bq,
                  "\n    | join kind=leftouter anomalies_data on ", time_column,
                  "\n    | where Anomalies == 1\n    | project ", time_column,
                  ", Anomalies">>
             \o dimension_projection
             \o <<";\n    ">>
             \o summaries
             \o <<"\n    ", union_queries>>

-----------------------------------------------------------------------------
(* Schema discovery: kusto_connection.extract_table_name *)

IsSpace(c) == c \in {" ", "\n", "\t", "\r"}

RECURSIVE drop_line(_)
\* the rest of s from the next newline on ('.' matches no newline)
drop_line(s) == IF s = <<>> \/ Head(s) = "\n" THEN s ELSE drop_line(Tail(s))

RECURSIVE strip_comments(_)
\* re.sub(r'//.*', '', s)
strip_comments(s) ==
    IF s = <<>> THEN <<>>
    ELSE IF Len(s) >= 2 /\ s[1] = "/" /\ s[2] = "/" THEN strip_comments(drop_line(s))
    ELSE <<Head(s)>> \o strip_comments(Tail(s))

RECURSIVE lstrip_space(_)
lstrip_space(s) == IF s # <<>> /\ IsSpace(Head(s)) THEN lstrip_space(Tail(s)) ELSE s

RECURSIVE rstrip_space(_)
rstrip_space(s) ==
    IF s # <<>> /\ IsSpace(s[Len(s)]) THEN rstrip_space(SubSeq(s, 1, Len(s) - 1)) ELSE s

\* str.strip()
strip_space(s) == rstrip_space(lstrip_space(s))

RECURSIVE split_tokens(_, _)
\* re.split(r'\s+|\n+|\|', s): a run of whitespace or one '|' ends the token cur
split_tokens(s, cur) ==
    IF s = <<>> THEN <<cur>>
    ELSE IF IsSpace(Head(s)) THEN <<cur>> \o split_tokens(lstrip_space(Tail(s)), <<>>)
    ELSE IF Head(s) = "|" THEN <<cur>> \o split_tokens(Tail(s), <<>>)
    ELSE split_tokens(Tail(s), Append(cur, Head(s)))

\* kusto_connection.py:130-155 with the "not found" error replaced by a default title
extract_table_name_default(bq, names) ==
    LET tokens == split_tokens(strip_space(strip_comments(bq)), <<>>)
        hits == {k \in 1..Len(tokens) : \E n \in 1..Len(names) : names[n] = strip_space(tokens[k])}
    IN  IF hits = {} THEN <<"C", "u", "s", "t", "o", "m">>
        ELSE strip_space(tokens[CHOOSE k \in hits : \A j \in hits : k <= j])

\* kusto_connection.py:130-155; Raised stands for the ValueError of line 155
extract_table_name(bq, names) ==
    LET tokens == split_tokens(strip_space(strip_comments(bq)), <<>>)
        hits == {k \in 1..Len(tokens) : \E n \in 1..Len(names) : names[n] = strip_space(tokens[k])}
    IN  IF hits = {} THEN Raised
        ELSE strip_space(tokens[CHOOSE k \in hits : \A j \in hits : k <= j])

-----------------------------------------------------------------------------
(* Inputs of a run *)

\* config.py:10-24
Settings == {"DATABASE", "QUERY_CLUSTER", "APP_ID", "APP_KEY", "AUTHORITY_ID",
             "API_TOKEN", "GRAFANA_URL", "DATASOURCE_NAME", "BASE_QUERY"}

\* main.py:35-38
required_env_vars == <<"APP_ID", "APP_KEY", "AUTHORITY_ID", "API_TOKEN",
                       "GRAFANA_URL", "DATASOURCE_NAME", "BASE_QUERY">>

\* Every setting set, or exactly one of them missing
Configs == {Settings} \cup {Settings \ {m} : m \in Settings}

Orders == <<"O", "r", "d", "e", "r", "s">>
WebLogs == <<"W", "e", "b", ".", "L", "o", "g", "s">>

\* "Orders|take 5", "//x\nWeb.Logs" and "Trips //Orders"
BaseQueries ==
    { <<"O", "r", "d", "e", "r", "s", "|", "t", "a", "k", "e", " ", "5">>,
      <<"/", "/", "x", "\n", "W", "e", "b", ".", "L", "o", "g", "s">>,
      <<"T", "r", "i", "p", "s", " ", "/", "/", "O", "r", "d", "e", "r", "s">> }

\* What listTables may return
TableLists == { <<Orders, WebLogs>>, <<WebLogs>> }

\* The most dimension columns a base query has
MaxDims == 2

ColumnPool == <<"Timestamp", "Latency", "Region", "Host", "Service", "Zone">>

\* What describeColumns may return: no column up to two columns and MaxDims dimensions
ColumnLists == {SubSeq(ColumnPool, 1, k) : k \in 0..(2 + MaxDims)}

\* The engine's answers to the gap query during a run (Fail apart)
MainReplies == {NoRow, Gap(90)}

\* The hosting service's answers to the publish call (Fail: the request raises)
PublishReplies ==
    { [status_code |-> 200, text |-> "{\"status\":\"success\"}"],
      [status_code |-> 401, text |-> "Unauthorized"],
      [status_code |-> 412, text |-> "version-mismatch"] }

-----------------------------------------------------------------------------
(* Dashboard Assembler: dashboard.py *)

\* dashboard.py:9-23
add_row(qt, title) ==
    Append(qt, [title |-> title, type |-> "row", collapsed |-> FALSE, panels |-> <<>>])

\* dashboard.py:66-78 with a row as tall as a regular panel
row_panel_mutant(item, panel_id, y_position) ==
    [type |-> "row", title |-> item.title, collapsed |-> item.collapsed,
     gridPos |-> [h |-> 8, w |-> 24, x |-> 0, y |-> y_position],
     panels |-> <<>>, id |-> panel_id]

\* dashboard.py:66-78
row_panel(item, panel_id, y_position) ==
    [type |-> "row", title |-> item.title, collapsed |-> item.collapsed,
     gridPos |-> [h |-> 1, w |-> 24, x |-> 0, y |-> y_position],
     panels |-> <<>>, id |-> panel_id]

\* dashboard.py:84-135 with the repeat keys copied whether set or not
regular_panel_mutant(item, panel_id, y_position, datasource_name, database) ==
    [type |-> item.type, title |-> item.title, id |-> panel_id,
     gridPos |-> [h |-> 8, w |-> 24, x |-> 0, y |-> y_position],
     datasource |-> datasource_name,
     database |-> database,
     resultFormat |-> IF item.type = "timeseries" THEN "time_series" ELSE "table",
     query |-> item.query,
     repeat |-> item.repeat, repeatDirection |-> "h", maxPerRow |-> 6]

\* dashboard.py:84-135: a regular panel; the repeat keys exist only when set
regular_panel(item, panel_id, y_position, datasource_name, database) ==
    LET base == [type |-> item.type, title |-> item.title, id |-> panel_id,
                 gridPos |-> [h |-> 8, w |-> 24, x |-> 0, y |-> y_position],
                 datasource |-> datasource_name,
                 database |-> database,
                 resultFormat |-> IF item.type = "timeseries" THEN "time_series" ELSE "table",
                 query |-> item.query]
    IN  IF Truthy(item.repeat)
        THEN base @@ [repeat |-> item.repeat, repeatDirection |-> "h", maxPerRow |-> 6]
        ELSE base

RECURSIVE build_panels(_, _, _, _, _)
\* dashboard.py:59-172: the loop over the descriptors
build_panels(items, panel_id, y_position, datasource_name, database) ==
    IF items = <<>> THEN <<>>
    ELSE IF Head(items).type = "row"
    THEN <<row_panel(Head(items), panel_id, y_position)>>
         \o build_panels(Tail(items), panel_id + 1, y_position + 1, datasource_name, database)
    ELSE <<regular_panel(Head(items), panel_id, y_position, datasource_name, database)>>
         \o build_panels(Tail(items), panel_id + 1, y_position + 8, datasource_name, database)

\* dashboard.py:37-179: the document handed to the hosting service
dashboard_json(qt, vds, title, datasource_name, database) ==
    [dashboard |-> [uid |-> dashboard_uid(title),
                    title |-> title,
                    panels |-> build_panels(qt, 1, 0, datasource_name, database),
                    templating |-> vds],
     folderId |-> 0,
     overwrite |-> TRUE]

-----------------------------------------------------------------------------
(* Panel Planner: main.py *)

\* config.DATABASE, config.DATASOURCE_NAME: the value of a setting, None when unset
Setting(name) == IF name \in cfg THEN name \o "-value" ELSE None

\* main.py:63-64
dimension_columns ==
    IF Len(all_columns) > 2 THEN SubSeq(all_columns, 3, Len(all_columns)) ELSE <<>>
columns == SubSeq(all_columns, 1, 2)

\* main.py:72-84
anomaly_threshold_definition ==
    [type |-> "textbox", name |-> "AnomalyThreshold", label |-> "Anomaly Threshold",
     query |-> "", multi |-> FALSE]

\* main.py:134-150 with a single-select variable
variable_definition_mutant(dimension_column) ==
    [type |-> "query", name |-> dimension_column, label |-> dimension_column,
     query |-> <<base_query, "\n| project ", dimension_column, " = tostring(",
                 dimension_column, ")\n| distinct ", dimension_column>>,
     multi |-> FALSE]

\* main.py:134-150
variable_definition(dimension_column) ==
    [type |-> "query", name |-> dimension_column, label |-> dimension_column,
     query |-> <<base_query, "\n| project ", dimension_column, " = tostring(",
                 dimension_column, ")\n| distinct ", dimension_column>>,
     multi |-> TRUE]

\* a panel descriptor as main() appends it
Panel(query, title, type, repeat) ==
    [query |-> query, title |-> title, type |-> type, repeat |-> repeat]

\* main.py:173-184 with the title chosen on more than two dimensions
segment_title_mutant(dims) ==
    IF Len(dims) > 2
    THEN "Anomaly Count per Segment by " \o JoinStr(dims, ", ")
    ELSE "Anomaly Count by " \o dims[1]

\* main.py:174-178
segment_title(dims) ==
    IF Len(dims) >= 2
    THEN "Anomaly Count per Segment by " \o JoinStr(dims, ", ")
    ELSE "Anomaly Count by " \o dims[1]

\* main.py:116-125
plan_dimension_barchart(qt, bq, cols, dims, reply) ==
    LET query_anomalies_per_dim == generate_dimension_anomaly_barchart(bq, cols, dims, reply)
    IN  IF TruthyList(query_anomalies_per_dim)
        THEN Append(qt, Panel(query_anomalies_per_dim, "Anomalies Per Dimension",
                              "barchart", None))
        ELSE qt

\* main.py:170-184
plan_segment_count(qt, bq, cols, dims, reply) ==
    LET anomaly_count_query == generate_anomaly_count_per_segment_query(bq, cols, dims, reply)
    IN  IF TruthyList(anomaly_count_query)
        THEN Append(qt, Panel(anomaly_count_query, segment_title(dims.items), "table", None))
        ELSE qt

\* The locals of main() are gone once it returns
Return ==
    /\ pc' = "done"
    /\ table_names' = <<>>
    /\ dashboard_title' = None
    /\ all_columns' = <<>>
    /\ variable_definitions' = <<>>
    /\ queries_and_titles' = <<>>
    /\ idx' = 0

\* main.py:231-233: the inner handler reports and main() returns
QueryError(text) ==
    /\ output' = Append(output, [kind |-> "query_error", text |-> text])
    /\ Return

\* One call to the engine (client.execute of kusto_connection.py:36, 57, 87) or
\* to the hosting service (dashboard.py:195), with the status and text of the
\* service's response (0 and "" when there is none or it is not kept)
CalledWith(op, ok, status, text) ==
    calls' = Append(calls, [op |-> op, ok |-> ok, status |-> status, text |-> text])
Called(op, ok) == CalledWith(op, ok, 0, "")

\* An engine call that was answered: the answer's kind goes in the text and
\* the gap it carries, in whole seconds, in the status
Answered(op, reply) == CalledWith(op, TRUE, reply.seconds, reply.kind)

\* The engine's answer to a logged call
ReplyOf(c) == [kind |-> c.text, seconds |-> c.status]

\* An engine call can succeed only with a cluster address to send it to; what
\* the client library makes of client.execute(None, query), the database name
\* unset, is not the program's to decide: the call may fail or be answered
EngineUp == "QUERY_CLUSTER" \in cfg

\* A failed engine call reported where it happens, the run going on (the panel
\* is tried again or left out) instead of ending
EngineFails_mutant(op) ==
    /\ Called(op, FALSE)
    /\ output' = Append(output, [kind |-> "query_error", text |-> "engine error"])
    /\ UNCHANGED <<cfg, base_query, pc, table_names, dashboard_title, all_columns,
                   variable_definitions, queries_and_titles, idx, posted, call, ret>>

\* kusto_connection.py:19-22 and the client.execute that follows, when the call fails:
\* without a cluster address the client may already fail to be built (no call made)
EngineFails(op) ==
    /\ \/ Called(op, FALSE)
       \/ "QUERY_CLUSTER" \notin cfg /\ UNCHANGED calls
    /\ QueryError("engine error")
    /\ UNCHANGED <<cfg, base_query, posted, call, ret>>

-----------------------------------------------------------------------------
(* main(): one action per statement group between two calls *)

NDims == Len(dimension_columns)

\* main.py:33-45
CheckConfig ==
    /\ pc = "start"
    /\ LET missing == {k \in 1..Len(required_env_vars) : required_env_vars[k] \notin cfg}
           first == required_env_vars[CHOOSE k \in missing : \A j \in missing : k <= j]
       IN  IF missing # {}
           THEN /\ output' = Append(output,
                       [kind |-> "exception",
                        text |-> "Environment variable " \o first \o " not set."])
                /\ Return
           ELSE /\ pc' = "get_all_table_names"
                /\ UNCHANGED <<output, table_names, dashboard_title, all_columns,
                               variable_definitions, queries_and_titles, idx>>
    /\ UNCHANGED <<cfg, base_query, calls, posted, call, ret>>

\* main.py:49 and kusto_connection.py:25-42
GetAllTableNames ==
    /\ pc = "get_all_table_names"
    /\ \/ EngineFails("listTables")
       \/ /\ EngineUp
          /\ Called("listTables", TRUE)
          /\ \E names \in TableLists : table_names' = names
          /\ pc' = "extract_table_name"
          /\ UNCHANGED <<cfg, base_query, dashboard_title, all_columns,
                         variable_definitions, queries_and_titles, idx, output,
                         posted, call, ret>>

\* main.py:52 and kusto_connection.py:130-155
ExtractTableName ==
    /\ pc = "extract_table_name"
    /\ LET name == extract_table_name(base_query, table_names)
       IN  IF name = Raised
           THEN QueryError("The given query does not reference any table in the provided database.")
           ELSE /\ dashboard_title' = name
                /\ pc' = "get_query_columns"
                /\ UNCHANGED <<table_names, all_columns, variable_definitions,
                               queries_and_titles, idx, output>>
    /\ UNCHANGED <<cfg, base_query, calls, posted, call, ret>>

\* main.py:55-87 and kusto_connection.py:45-63
GetQueryColumns ==
    /\ pc = "get_query_columns"
    /\ \/ EngineFails("describeColumns")
       \/ /\ EngineUp
          /\ Called("describeColumns", TRUE)
          /\ \E cols \in ColumnLists :
                IF Len(cols) < 2
                THEN /\ output' = Append(output,
                            [kind |-> "print", text |-> "Not enough columns in query result."])
                     /\ Return
                ELSE /\ all_columns' = cols
                     /\ variable_definitions' = <<anomaly_threshold_definition>>
                     /\ queries_and_titles' = <<>>
                     /\ pc' = "row_time_series"
                     /\ UNCHANGED <<table_names, dashboard_title, idx, output>>
          /\ UNCHANGED <<cfg, base_query, posted, call, ret>>

\* An add_row statement of main(): from position "from" to position "to"
AddRow(from, title, to, loop) ==
    /\ pc = from
    /\ queries_and_titles' = add_row(queries_and_titles, title)
    /\ pc' = to
    /\ idx' = IF loop THEN 1 ELSE idx
    /\ UNCHANGED <<cfg, base_query, table_names, dashboard_title, all_columns,
                   variable_definitions, calls, output, posted, call, ret>>

\* What a generation step leaves alone when it succeeds
GenUnchanged == UNCHANGED <<cfg, base_query, table_names, dashboard_title, all_columns,
                            output, posted, call, ret>>

\* main.py:89-90
RowTimeSeries ==
    /\ pc = "row_time_series"
    /\ AddRow("row_time_series", "Time Series Plot", "gen_decomposition", FALSE)

\* main.py:93-100
GenDecomposition ==
    /\ pc = "gen_decomposition"
    /\ \/ EngineFails("extract_dt")
       \/ /\ EngineUp
          /\ \E reply \in MainReplies :
                /\ Answered("extract_dt", reply)
                /\ queries_and_titles' = Append(queries_and_titles,
                       Panel(generate_series_decomposition_query(base_query, columns, None, reply),
                             "Series Decomposition", "timeseries", None))
          /\ pc' = "gen_anomalies"
          /\ UNCHANGED <<variable_definitions, idx>>
          /\ GenUnchanged

\* main.py:103-110 with dt taken over from the previous query, the engine not asked
GenAnomalies_mutant ==
    /\ pc = "gen_anomalies"
    /\ queries_and_titles' = Append(queries_and_titles,
           Panel(generate_series_decompose_anomalies_query(base_query, columns, None,
                                                           ReplyOf(calls[Len(calls)])),
                 "Anomalies", "timeseries", None))
    /\ pc' = "row_per_dimension"
    /\ UNCHANGED <<variable_definitions, idx, calls>>
    /\ GenUnchanged

\* main.py:103-110
GenAnomalies ==
    /\ pc = "gen_anomalies"
    /\ \/ EngineFails("extract_dt")
       \/ /\ EngineUp
          /\ \E reply \in MainReplies :
                /\ Answered("extract_dt", reply)
                /\ queries_and_titles' = Append(queries_and_titles,
                       Panel(generate_series_decompose_anomalies_query(base_query, columns, None, reply),
                             "Anomalies", "timeseries", None))
          /\ pc' = "row_per_dimension"
          /\ UNCHANGED <<variable_definitions, idx>>
          /\ GenUnchanged

\* main.py:112-113
RowPerDimension ==
    /\ pc = "row_per_dimension"
    /\ AddRow("row_per_dimension", "Anomalies Count Per Dimension", "gen_dimension_barchart", FALSE)

\* main.py:116-125 with the engine asked for dt before the generator tests
\* whether to skip
GenDimensionBarchart_mutant ==
    /\ pc = "gen_dimension_barchart"
    /\ \/ EngineFails("extract_dt")
       \/ /\ EngineUp
          /\ \E reply \in MainReplies :
                /\ Answered("extract_dt", reply)
                /\ queries_and_titles' = plan_dimension_barchart(queries_and_titles,
                       base_query, columns, Given(dimension_columns), reply)
          /\ pc' = "row_count"
          /\ UNCHANGED <<variable_definitions, idx>>
          /\ GenUnchanged

\* main.py:116-125; the generator calls the engine only when it does not skip
GenDimensionBarchart ==
    /\ pc = "gen_dimension_barchart"
    /\ \/ ~barchart_skip(Given(dimension_columns)) /\ EngineFails("extract_dt")
       \/ /\ IF barchart_skip(Given(dimension_columns))
             THEN /\ queries_and_titles' = plan_dimension_barchart(queries_and_titles,
                         base_query, columns, Given(dimension_columns), NoRow)
                  /\ UNCHANGED calls
             ELSE /\ EngineUp
                  /\ \E reply \in MainReplies :
                        /\ Answered("extract_dt", reply)
                        /\ queries_and_titles' = plan_dimension_barchart(queries_and_titles,
                               base_query, columns, Given(dimension_columns), reply)
          /\ pc' = "row_count"
          /\ UNCHANGED <<variable_definitions, idx>>
          /\ GenUnchanged

\* main.py:127-128
RowCount ==
    /\ pc = "row_count"
    /\ AddRow("row_count", "Anomalies Count", "count_loop", TRUE)

\* main.py:131-164: one iteration
CountLoop ==
    /\ pc = "count_loop"
    /\ idx <= NDims
    /\ \/ EngineFails("extract_dt")
       \/ /\ EngineUp
          /\ LET dimension_column == dimension_columns[idx]
             IN  /\ variable_definitions' =
                        Append(variable_definitions, variable_definition(dimension_column))
                 /\ \E reply \in MainReplies :
                       /\ Answered("extract_dt", reply)
                       /\ queries_and_titles' = Append(queries_and_titles,
                              Panel(generate_anomaly_count_bar_chart(base_query, columns,
                                                                     dimension_column, reply),
                                    "Anomalies Count by " \o dimension_column, "barchart", None))
          /\ idx' = idx + 1
          /\ pc' = pc
          /\ GenUnchanged

\* main.py:166-167
RowPerSegment ==
    /\ idx > NDims
    /\ AddRow("count_loop", "Anomalies Count Per Segment", "gen_segment_count", FALSE)

\* main.py:170-184
GenSegmentCount ==
    /\ pc = "gen_segment_count"
    /\ \/ ~segment_skip(Given(dimension_columns)) /\ EngineFails("extract_dt")
       \/ /\ IF segment_skip(Given(dimension_columns))
             THEN /\ queries_and_titles' = plan_segment_count(queries_and_titles,
                         base_query, columns, Given(dimension_columns), NoRow)
                  /\ UNCHANGED calls
             ELSE /\ EngineUp
                  /\ \E reply \in MainReplies :
                        /\ Answered("extract_dt", reply)
                        /\ queries_and_titles' = plan_segment_count(queries_and_titles,
                               base_query, columns, Given(dimension_columns), reply)
          /\ pc' = "row_score"
          /\ UNCHANGED <<variable_definitions, idx>>
          /\ GenUnchanged

\* main.py:186-187
RowScore ==
    /\ pc = "row_score"
    /\ AddRow("row_score", "Anomalies Score", "score_loop", TRUE)

\* main.py:189-202: one iteration
ScoreLoop ==
    /\ pc = "score_loop"
    /\ idx <= NDims
    /\ \/ EngineFails("extract_dt")
       \/ /\ EngineUp
          /\ LET variable_name == dimension_columns[idx]
             IN  \E reply \in MainReplies :
                    /\ Answered("extract_dt", reply)
                    /\ queries_and_titles' = Append(queries_and_titles,
                           Panel(generate_series_decompose_anomalies_query(base_query, columns,
                                                                           variable_name, reply),
                                 variable_name \o " - " \o Placeholder(variable_name),
                                 "timeseries", variable_name))
          /\ idx' = idx + 1
          /\ pc' = pc
          /\ UNCHANGED variable_definitions
          /\ GenUnchanged

\* main.py:204-205
RowDecomposition ==
    /\ idx > NDims
    /\ AddRow("score_loop", "Series Decomposition", "decomposition_loop", TRUE)

\* main.py:207-220: one iteration
DecompositionLoop ==
    /\ pc = "decomposition_loop"
    /\ idx <= NDims
    /\ \/ EngineFails("extract_dt")
       \/ /\ EngineUp
          /\ LET variable_name == dimension_columns[idx]
             IN  \E reply \in MainReplies :
                    /\ Answered("extract_dt", reply)
                    /\ queries_and_titles' = Append(queries_and_titles,
                           Panel(generate_series_decomposition_query(base_query, columns,
                                                                     variable_name, reply),
                                 variable_name \o " - " \o Placeholder(variable_name),
                                 "timeseries", variable_name))
          /\ idx' = idx + 1
          /\ pc' = pc
          /\ UNCHANGED variable_definitions
          /\ GenUnchanged

\* main() has reached the call of create_dashboard (main.py:223)
AtCreateDashboard == pc = "decomposition_loop" /\ idx > NDims

\* dashboard.py:201-205 with the service's message left out of the report
publish_report_mutant(response) ==
    IF response.status_code = 200
    THEN [kind |-> "created", text |-> ""]
    ELSE [kind |-> "failed", text |-> ""]

\* dashboard.py:201-205: what create_dashboard prints for the service's response
publish_report(response) ==
    IF response.status_code = 200
    THEN [kind |-> "created", text |-> ""]
    ELSE [kind |-> "failed", text |-> response.text]

\* main.py:223-229 and dashboard.py:26-205: build the document, post it, report
CreateDashboard ==
    /\ AtCreateDashboard
    /\ posted' = Append(posted,
           dashboard_json(queries_and_titles, variable_definitions, dashboard_title,
                          Setting("DATASOURCE_NAME"), Setting("DATABASE")))
    /\ \/ \E response \in PublishReplies :
             /\ CalledWith("publish", response.status_code = 200,
                           response.status_code, response.text)
             /\ output' = Append(output, publish_report(response))
             /\ Return
       \/ /\ Called("publish", FALSE)
          /\ QueryError("request error")
    /\ UNCHANGED <<cfg, base_query, call, ret>>

\* Outside the pure-function checks no function is under test
NoCall == [fn |-> "none"]
NoReturn == [state |-> "idle", value |-> None]

Init ==
    /\ cfg \in Configs
    /\ base_query \in (IF "BASE_QUERY" \in cfg THEN BaseQueries ELSE {<<>>})
    /\ pc = "start"
    /\ table_names = <<>>
    /\ dashboard_title = None
    /\ all_columns = <<>>
    /\ variable_definitions = <<>>
    /\ queries_and_titles = <<>>
    /\ idx = 0
    /\ calls = <<>>
    /\ output = <<>>
    /\ posted = <<>>
    /\ call = NoCall
    /\ ret = NoReturn

Next ==
    \/ CheckConfig
    \/ GetAllTableNames
    \/ ExtractTableName
    \/ GetQueryColumns
    \/ RowTimeSeries
    \/ GenDecomposition
    \/ GenAnomalies
    \/ RowPerDimension
    \/ GenDimensionBarchart
    \/ RowCount
    \/ CountLoop
    \/ RowPerSegment
    \/ GenSegmentCount
    \/ RowScore
    \/ ScoreLoop
    \/ RowDecomposition
    \/ DecompositionLoop
    \/ CreateDashboard

Spec == Init /\ [][Next]_vars

-----------------------------------------------------------------------------
(* Pure functions, each applied once to inputs drawn from bounded sets *)

\* main() is not running
MainIdle ==
    /\ cfg = Settings
    /\ base_query = <<>>
    /\ pc = "done"
    /\ table_names = <<>>
    /\ dashboard_title = None
    /\ all_columns = <<>>
    /\ variable_definitions = <<>>
    /\ queries_and_titles = <<>>
    /\ idx = 0
    /\ calls = <<>>
    /\ output = <<>>
    /\ posted = <<>>

PendingReturn == [state |-> "pending", value |-> None]
Returned(v) == [state |-> "returned", value |-> v]
RaisedReturn == [state |-> "raised", value |-> None]

\* The most whole days between the two newest timestamps
MaxDays == 2

\* Gaps in whole seconds: every mix of zero and non-zero components
Gaps == {d * 86400 + h * 3600 + m * 60 + sec :
            d \in 0..MaxDays, h \in {0, 1, 2, 23}, m \in {0, 1, 59}, sec \in {0, 30, 59}}

DtReplies == {Fail, NoTable, NoRow} \cup {Gap(T) : T \in Gaps}

InitDt ==
    /\ MainIdle
    /\ call \in {[fn |-> "extract_dt", reply |-> r] : r \in DtReplies}
    /\ ret = PendingReturn

\* kusto_connection.py:66-126
CallExtractDt ==
    /\ call.fn = "extract_dt"
    /\ ret.state = "pending"
    /\ ret' = IF call.reply = Fail THEN RaisedReturn ELSE Returned(extract_dt(call.reply))
    /\ UNCHANGED <<mainVars, call>>

SpecDt == InitDt /\ [][CallExtractDt]_vars

\* The most rows of a series
MaxRows == 3

\* Timestamps of the rows, in whole seconds
Times == {0, 60, 150, 86550}

\* Series in the order the base query yields their rows
SeriesLists == UNION {[1..n -> Times] : n \in 0..MaxRows}

InitSeries ==
    /\ MainIdle
    /\ call \in {[fn |-> "extract_dt_series", series |-> l] : l \in SeriesLists}
    /\ ret = PendingReturn

\* kusto_connection.py:66-126 with the engine answering the gap query on the series
CallExtractDtSeries ==
    /\ call.fn = "extract_dt_series"
    /\ ret.state = "pending"
    /\ ret' = Returned(extract_dt(gap_query(call.series)))
    /\ UNCHANGED <<mainVars, call>>

SpecSeries == InitSeries /\ [][CallExtractDtSeries]_vars

\* The longest dashboard title tried, apart from the example of the specification
MaxTitleLen == 4

TitleChars == {"O", "b", "_", "-", " ", "!"}

\* "Orders Table!!"
OrdersTable == <<"O", "r", "d", "e", "r", "s", " ", "T", "a", "b", "l", "e", "!", "!">>

Titles == UNION {[1..n -> TitleChars] : n \in 0..MaxTitleLen} \cup {OrdersTable}

InitUid ==
    /\ MainIdle
    /\ call \in {[fn |-> "create_dashboard", title |-> t] : t \in Titles}
    /\ ret = PendingReturn

\* dashboard.py:38
CallDashboardUid ==
    /\ call.fn = "create_dashboard"
    /\ ret.state = "pending"
    /\ ret' = Returned(dashboard_uid(call.title))
    /\ UNCHANGED <<mainVars, call>>

SpecUid == InitUid /\ [][CallDashboardUid]_vars

DimNames == {"Region", "Host", "AnomalyThreshold"}

\* Lists of distinct dimension names, at most MaxDims long
DimLists == {l \in UNION {[1..n -> DimNames] : n \in 0..MaxDims} :
                \A a, b \in 1..Len(l) : a # b => l[a] # l[b]}

OptDimLists == {Absent} \cup {Given(l) : l \in DimLists}

ColumnPairs == {<<"Timestamp", "Latency">>, <<"ts", "value">>}

QueryReplies == {Fail, NoRow, Gap(90)}

\* one optional dimension / one required dimension / an optional list of dimensions
OneDimCalls(fn, dims) ==
    {[fn |-> fn, base_query |-> bq, columns |-> c, dimension |-> d, reply |-> r] :
        bq \in BaseQueries, c \in ColumnPairs, d \in dims, r \in QueryReplies}

InitQuery ==
    /\ MainIdle
    /\ call \in OneDimCalls("generate_series_decomposition_query", DimNames \cup {None})
            \cup OneDimCalls("generate_series_decompose_anomalies_query", DimNames \cup {None})
            \cup OneDimCalls("generate_anomaly_count_bar_chart", DimNames)
            \cup OneDimCalls("generate_anomaly_count_per_segment_query", OptDimLists)
            \cup OneDimCalls("generate_dimension_anomaly_barchart", OptDimLists)
    /\ ret = PendingReturn

\* anomaly_detection.py:5-49
CallDecomposition ==
    /\ call.fn = "generate_series_decomposition_query"
    /\ ret.state = "pending"
    /\ ret' = IF call.reply = Fail THEN RaisedReturn
              ELSE Returned(generate_series_decomposition_query(
                       call.base_query, call.columns, call.dimension, call.reply))
    /\ UNCHANGED <<mainVars, call>>

\* anomaly_detection.py:53-96
CallDecomposeAnomalies ==
    /\ call.fn = "generate_series_decompose_anomalies_query"
    /\ ret.state = "pending"
    /\ ret' = IF call.reply = Fail THEN RaisedReturn
              ELSE Returned(generate_series_decompose_anomalies_query(
                       call.base_query, call.columns, call.dimension, call.reply))
    /\ UNCHANGED <<mainVars, call>>

\* anomaly_detection.py:145-179
CallCountBarChart ==
    /\ call.fn = "generate_anomaly_count_bar_chart"
    /\ ret.state = "pending"
    /\ ret' = IF call.reply = Fail THEN RaisedReturn
              ELSE Returned(generate_anomaly_count_bar_chart(
                       call.base_query, call.columns, call.dimension, call.reply))
    /\ UNCHANGED <<mainVars, call>>

\* anomaly_detection.py:99-142, then main.py:173-184 on an empty descriptor list
CallSegmentCount ==
    /\ call.fn = "generate_anomaly_count_per_segment_query"
    /\ ret.state = "pending"
    /\ ret' = IF ~segment_skip(call.dimension) /\ call.reply = Fail THEN RaisedReturn
              ELSE [state |-> "returned",
                    value |-> generate_anomaly_count_per_segment_query(
                                  call.base_query, call.columns, call.dimension, call.reply),
                    panels |-> plan_segment_count(<<>>, call.base_query, call.columns,
                                                  call.dimension, call.reply)]
    /\ UNCHANGED <<mainVars, call>>

\* anomaly_detection.py:182-236, then main.py:118-125 on an empty descriptor list
CallDimensionBarchart ==
    /\ call.fn = "generate_dimension_anomaly_barchart"
    /\ ret.state = "pending"
    /\ ret' = IF ~barchart_skip(call.dimension) /\ call.reply = Fail THEN RaisedReturn
              ELSE [state |-> "returned",
                    value |-> generate_dimension_anomaly_barchart(
                                  call.base_query, call.columns, call.dimension, call.reply),
                    panels |-> plan_dimension_barchart(<<>>, call.base_query, call.columns,
                                                       call.dimension, call.reply)]
    /\ UNCHANGED <<mainVars, call>>

NextQuery ==
    \/ CallDecomposition
    \/ CallDecomposeAnomalies
    \/ CallCountBarChart
    \/ CallSegmentCount
    \/ CallDimensionBarchart

SpecQuery == InitQuery /\ [][NextQuery]_vars

\* The longest descriptor list handed to create_dashboard on its own
MaxItems == 4

\* Descriptors as add_row and main() build them: a row, the three panel
\* types, and a panel that repeats over a variable
ItemPool ==
    { [title |-> "Anomalies Score", type |-> "row", collapsed |-> FALSE, panels |-> <<>>],
      Panel(<<"q1">>, "Anomalies", "timeseries", None),
      Panel(<<"q2">>, "Anomalies Per Dimension", "barchart", None),
      Panel(<<"q3">>, "Anomaly Count by Region", "table", None),
      Panel(<<"q4">>, "Region - ${Region}", "timeseries", "Region") }

ItemLists == UNION {[1..n -> ItemPool] : n \in 0..MaxItems}

InitPanels ==
    /\ MainIdle
    /\ call \in {[fn |-> "create_dashboard_panels", items |-> l] : l \in ItemLists}
    /\ ret = PendingReturn

\* dashboard.py:26-179: the document create_dashboard builds from the descriptors
CallCreateDashboard ==
    /\ call.fn = "create_dashboard_panels"
    /\ ret.state = "pending"
    /\ ret' = Returned(dashboard_json(call.items, <<anomaly_threshold_definition>>, Orders,
                                      "DATASOURCE_NAME-value", "DATABASE-value"))
    /\ UNCHANGED <<mainVars, call>>

SpecPanels == InitPanels /\ [][CallCreateDashboard]_vars

-----------------------------------------------------------------------------
(* Properties *)

IsRow(item, title) == item.type = "row" /\ item.title = title
IsPanel(item, type, title) == item.type = type /\ item.title = title

\* C1: when main() reaches create_dashboard, the descriptor list is: row
\* 'Time Series Plot', timeseries 'Series Decomposition', timeseries
\* 'Anomalies', row 'Anomalies Count Per Dimension', then with n >= 1
\* dimensions one barchart 'Anomalies Per Dimension', row 'Anomalies Count',
\* one barchart 'Anomalies Count by d' per dimension in column order, row
\* 'Anomalies Count Per Segment', one table, row 'Anomalies Score', one
\* timeseries per dimension in column order, row 'Series Decomposition', one
\* timeseries per dimension in column order (10 + 3n entries); with no
\* dimension the six rows and the two panels of the first row only.  For
\* dimensions Region, Host the table is titled 'Anomaly Count per Segment by
\* Region, Host'.
C1_EmissionOrder ==
    AtCreateDashboard =>
        LET D == dimension_columns
            n == Len(D)
            q == queries_and_titles
        IN  /\ Len(q) = IF n = 0 THEN 8 ELSE 10 + 3 * n
            /\ IsRow(q[1], "Time Series Plot")
            /\ IsPanel(q[2], "timeseries", "Series Decomposition")
            /\ IsPanel(q[3], "timeseries", "Anomalies")
            /\ IsRow(q[4], "Anomalies Count Per Dimension")
            /\ n = 0 =>
                  /\ IsRow(q[5], "Anomalies Count")
                  /\ IsRow(q[6], "Anomalies Count Per Segment")
                  /\ IsRow(q[7], "Anomalies Score")
                  /\ IsRow(q[8], "Series Decomposition")
            /\ n >= 1 =>
                  /\ IsPanel(q[5], "barchart", "Anomalies Per Dimension")
                  /\ IsRow(q[6], "Anomalies Count")
                  /\ \A k \in 1..n :
                        IsPanel(q[6 + k], "barchart", "Anomalies Count by " \o D[k])
                  /\ IsRow(q[7 + n], "Anomalies Count Per Segment")
                  /\ q[8 + n].type = "table"
                  /\ IsRow(q[9 + n], "Anomalies Score")
                  /\ \A k \in 1..n :
                        q[9 + n + k].type = "timeseries" /\ q[9 + n + k].repeat = D[k]
                  /\ IsRow(q[10 + 2 * n], "Series Decomposition")
                  /\ \A k \in 1..n :
                        q[10 + 2 * n + k].type = "timeseries" /\ q[10 + 2 * n + k].repeat = D[k]
            /\ D = <<"Region", "Host">> =>
                  q[8 + n].title = "Anomaly Count per Segment by Region, Host"

\* C1 witness: create_dashboard is reached for columns Timestamp, Latency, Region, Host
C1_Witness ==
    /\ AtCreateDashboard
    /\ all_columns = <<"Timestamp", "Latency", "Region", "Host">>
    /\ Len(queries_and_titles) = 16

IsListCall ==
    call.fn \in {"generate_anomaly_count_per_segment_query",
                 "generate_dimension_anomaly_barchart"}

\* C2: the per-segment and the multi-dimension bar generators return None
\* when the dimension list is empty or absent, without calling the engine,
\* and the planner then appends no panel; with at least one dimension they
\* return a query, never None, and the planner appends exactly one panel
\* carrying it.
C2_SkipSignal ==
    IsListCall =>
        LET skipped == ~call.dimension.given \/ call.dimension.items = <<>>
        IN  /\ (ret.state = "raised") => ~skipped
            /\ (ret.state = "returned" /\ skipped) =>
                  ret.value = None /\ ret.panels = <<>>
            /\ (ret.state = "returned" /\ ~skipped) =>
                  /\ ret.value # None
                  /\ Len(ret.value) > 0
                  /\ Len(ret.panels) = 1
                  /\ ret.panels[1].query = ret.value

\* C2 witness: the multi-dimension bar generator skipped an absent list
C2_Witness ==
    /\ call.fn = "generate_dimension_anomaly_barchart"
    /\ call.dimension = Absent
    /\ ret.state = "returned"
    /\ ret.value = None

\* C3: extract_dt returns "1d" whenever the series has fewer than two rows
\* (the gap query yields no row or no result table).
C3_FallbackOnShortSeries ==
    (call.fn = "extract_dt" /\ ret.state = "returned" /\ call.reply \in {NoRow, NoTable})
        => ret.value = "1d"

\* The rendering the specification gives for a gap of T whole seconds
C4_Rendering(T) ==
    LET parts == << <<T \div 86400, "d">>, <<(T \div 3600) % 24, "h">>,
                    <<(T \div 60) % 60, "m">>, <<T % 60, "s">> >>
        kept == SelectSeq(parts, LAMBDA c : c[1] # 0)
    IN  IF kept = <<>> THEN "1d"
        ELSE JoinStr([k \in 1..Len(kept) |-> ToString(kept[k][1]) \o kept[k][2]], " ")

\* C4: for a gap of T >= 0 whole seconds extract_dt returns the days, hours,
\* minutes and seconds of T as '<n>d', '<n>h', '<n>m', '<n>s' in that order,
\* only the non-zero ones, joined by single spaces; "1d" when all are zero;
\* never the empty string; 90 s gives "1m 30s" and 93600 s gives "1d 2h".
C4_GapRendering ==
    (call.fn = "extract_dt" /\ ret.state = "returned" /\ call.reply.kind = "gap") =>
        /\ ret.value = C4_Rendering(call.reply.seconds)
        /\ ret.value # ""
        /\ call.reply.seconds = 90 => ret.value = "1m 30s"
        /\ call.reply.seconds = 93600 => ret.value = "1d 2h"
        /\ call.reply.seconds = 0 => ret.value = "1d"

\* C4 witness: a gap of 90 seconds was rendered
C4_Witness ==
    /\ call.fn = "extract_dt"
    /\ ret.state = "returned"
    /\ call.reply = Gap(90)
    /\ ret.value = "1m 30s"

\* How often the piece tok occurs in the rendered query q
Occurrences(q, tok) == Cardinality({k \in 1..Len(q) : q[k] = tok})

\* q has a where clause on a dimension (the clause of lines 30 and 77)
HasDimensionFilter(q) == Occurrences(q, "| where tostring(") > 0

IsDecompositionCall ==
    call.fn \in {"generate_series_decomposition_query",
                 "generate_series_decompose_anomalies_query"}

\* C5: for every dimension name d, the decomposition query and the
\* decompose-anomalies query generated for d contain the token ${d} exactly
\* once, in the appended where clause; generated without a dimension they
\* contain no dimension token and no where clause.
C5_PlaceholderOnce ==
    (IsDecompositionCall /\ ret.state = "returned") =>
        IF call.dimension # None
        THEN /\ Occurrences(ret.value, Placeholder(call.dimension)) = 1
             /\ HasDimensionFilter(ret.value)
             /\ Occurrences(where_clause(call.dimension), Placeholder(call.dimension)) = 1
        ELSE /\ \A d \in DimNames \ {"AnomalyThreshold"} :
                    Occurrences(ret.value, Placeholder(d)) = 0
             /\ ~HasDimensionFilter(ret.value)

\* C5, as far as the code goes: the same for every dimension not named
\* AnomalyThreshold, and for the plain decomposition query whatever the name.
C5_PlaceholderOnceUnlessThreshold ==
    (IsDecompositionCall /\ ret.state = "returned") =>
        IF call.dimension # None
        THEN /\ (call.dimension # "AnomalyThreshold"
                    \/ call.fn = "generate_series_decomposition_query")
                    => Occurrences(ret.value, Placeholder(call.dimension)) = 1
             /\ (call.dimension = "AnomalyThreshold"
                    /\ call.fn = "generate_series_decompose_anomalies_query")
                    => Occurrences(ret.value, Placeholder(call.dimension)) = 2
             /\ HasDimensionFilter(ret.value)
             /\ Occurrences(where_clause(call.dimension), Placeholder(call.dimension)) = 1
        ELSE /\ \A d \in DimNames \ {"AnomalyThreshold"} :
                    Occurrences(ret.value, Placeholder(d)) = 0
             /\ ~HasDimensionFilter(ret.value)

\* The places of s where a '-' stands for a run of non-word characters that
\* has a word character before it and one right after it
InnerRuns(s) ==
    {k \in 1..Len(s) - 1 :
        /\ ~IsWord(s[k])
        /\ IsWord(s[k + 1])
        /\ \E j \in 1..k : IsWord(s[j])}

\* C6: the uid is the lower-cased title with each maximal run of non-word
\* characters replaced by one '-' and the '-' at both ends removed: it keeps
\* the word characters of the title, lower-cased and in order, has one '-'
\* for each inner run, no upper-case letter, no two adjacent '-', and neither
\* starts nor ends with '-'; "Orders Table!!" gives "orders-table".
C6_Uid ==
    (call.fn = "create_dashboard" /\ ret.state = "returned") =>
        LET t == call.title
            u == ret.value
        IN  /\ SelectSeq(u, IsWord) = lower(SelectSeq(t, IsWord))
            /\ \A k \in 1..Len(u) : IsWord(u[k]) \/ u[k] = "-"
            /\ Occurrences(u, "-") = Cardinality(InnerRuns(t))
            /\ \A k \in 1..Len(u) : ~IsUpper(u[k])
            /\ \A k \in 1..Len(u) - 1 : ~(u[k] = "-" /\ u[k + 1] = "-")
            /\ u # <<>> => u[1] # "-" /\ u[Len(u)] # "-"
            /\ t = OrdersTable =>
                  u = <<"o", "r", "d", "e", "r", "s", "-", "t", "a", "b", "l", "e">>

\* C6 witness: the uid of "Orders Table!!" was computed
C6_Witness ==
    /\ call.fn = "create_dashboard"
    /\ call.title = OrdersTable
    /\ ret.state = "returned"
    /\ Len(ret.value) = 12

HasCall(op) == \E k \in 1..Len(calls) : calls[k].op = op
Printed(text) == \E k \in 1..Len(output) : output[k].text = text

\* The run reported a schema error
SchemaError ==
    \/ Printed("Not enough columns in query result.")
    \/ Printed("The given query does not reference any table in the provided database.")

\* main() is between the schema checks and the end of create_dashboard
Planning ==
    pc \in {"row_time_series", "gen_decomposition", "gen_anomalies", "row_per_dimension",
            "gen_dimension_barchart", "row_count", "count_loop", "gen_segment_count",
            "row_score", "score_loop", "decomposition_loop"}

NonRowPanels(doc) == SelectSeq(doc.dashboard.panels, LAMBDA p : p.type # "row")

\* C8: when the engine call of extract_dt fails, at whichever panel, the run
\* ends there: it is the last call of the run, the accumulated panels are
\* dropped and nothing is published; a document is published only after
\* every extract_dt call succeeded, one per non-row panel of the document.
C8_EngineFailureAborts ==
    /\ \A k \in 1..Len(calls) :
          (calls[k].op = "extract_dt" /\ ~calls[k].ok) =>
              /\ k = Len(calls)
              /\ pc = "done"
              /\ queries_and_titles = <<>>
              /\ posted = <<>>
    /\ \A j \in 1..Len(posted) :
          /\ \A k \in 1..Len(calls) : calls[k].op = "extract_dt" => calls[k].ok
          /\ Cardinality({k \in 1..Len(calls) : calls[k].op = "extract_dt"})
                = Len(NonRowPanels(posted[j]))

\* C8 witness: the engine failed at a panel after two panels had been generated
C8_Witness ==
    /\ Len(calls) >= 5
    /\ calls[Len(calls)].op = "extract_dt"
    /\ ~calls[Len(calls)].ok
    /\ calls[Len(calls) - 1].op = "extract_dt"
    /\ calls[Len(calls) - 1].ok

\* C9: the publish call is made at most once; it is the last call of the
\* run; after a non-success response the run has ended and the failure it
\* reported carries the service's response text unchanged.
C9_PublishOnce ==
    /\ Cardinality({k \in 1..Len(calls) : calls[k].op = "publish"}) <= 1
    /\ Len(posted) <= 1
    /\ Len(posted) = Cardinality({k \in 1..Len(calls) : calls[k].op = "publish"})
    /\ \A k \in 1..Len(calls) :
          calls[k].op = "publish" =>
              /\ k = Len(calls)
              /\ pc = "done"
              /\ calls[k].status \notin {0, 200} =>
                    /\ ~calls[k].ok
                    /\ output[Len(output)] = [kind |-> "failed", text |-> calls[k].text]

\* C9 witness: the hosting service answered 401 Unauthorized
C9_Witness ==
    /\ Len(calls) > 0
    /\ calls[Len(calls)].op = "publish"
    /\ calls[Len(calls)].status = 401
    /\ output[Len(output)].text = "Unauthorized"

\* C10: with any setting missing, the database name and the cluster address
\* included, main() reports a configuration error at once: no engine call,
\* no panel, nothing published.
C10_MissingSettingStopsRun ==
    cfg # Settings =>
        /\ calls = <<>>
        /\ posted = <<>>
        /\ queries_and_titles = <<>>
        /\ pc = "done" => /\ Len(output) = 1
                          /\ output[1].kind = "exception"

\* C10, as far as the code goes: the same for the seven settings main() tests.
C10_CheckedSettingStopsRun ==
    (\E k \in 1..Len(required_env_vars) : required_env_vars[k] \notin cfg) =>
        /\ calls = <<>>
        /\ posted = <<>>
        /\ queries_and_titles = <<>>
        /\ pc = "done" => /\ Len(output) = 1
                          /\ output[1].kind = "exception"

RECURSIVE SumHeights(_, _)
\* The heights of the first k panels of a panel list, added up
SumHeights(panels, k) ==
    IF k = 0 THEN 0 ELSE SumHeights(panels, k - 1) + panels[k].gridPos.h

\* C11: for every descriptor list handed to create_dashboard, the panels of
\* the document are as many as the descriptors and in their order; the i-th
\* panel has id i; every panel has x = 0 and w = 24; a row has h = 1 and any
\* other panel h = 8; the y of a panel is the sum of the heights of the panels
\* before it.
C11_PanelLayout ==
    (call.fn = "create_dashboard_panels" /\ ret.state = "returned") =>
        LET panels == ret.value.dashboard.panels
            items == call.items
        IN  /\ Len(panels) = Len(items)
            /\ \A i \in 1..Len(panels) :
                  /\ panels[i].type = items[i].type
                  /\ panels[i].title = items[i].title
                  /\ panels[i].type # "row" => panels[i].query = items[i].query
                  /\ panels[i].id = i
                  /\ panels[i].gridPos.x = 0
                  /\ panels[i].gridPos.w = 24
                  /\ panels[i].gridPos.h = (IF items[i].type = "row" THEN 1 ELSE 8)
                  /\ panels[i].gridPos.y = SumHeights(panels, i - 1)

\* C11 witness: a document of row, panel, row, panel; the last panel sits at y = 10
C11_Witness ==
    /\ call.fn = "create_dashboard_panels"
    /\ ret.state = "returned"
    /\ Len(call.items) = 4
    /\ call.items[1].type = "row"
    /\ call.items[2].type = "timeseries"
    /\ call.items[3].type = "row"
    /\ call.items[4].type = "barchart"
    /\ ret.value.dashboard.panels[4].gridPos.y = 10
    /\ ret.value.dashboard.panels[4].id = 4

\* C12: when main() reaches create_dashboard with n dimensions, the variable
\* list has n + 1 entries: the textbox 'AnomalyThreshold' first, then one
\* query-driven multi-select variable per dimension, named after it, in
\* column order; with no dimension the textbox alone.  The published document
\* carries that list.
C12_TemplatingVariables ==
    /\ AtCreateDashboard =>
          /\ Len(variable_definitions) = NDims + 1
          /\ variable_definitions[1].type = "textbox"
          /\ variable_definitions[1].name = "AnomalyThreshold"
          /\ \A k \in 1..NDims :
                /\ variable_definitions[k + 1].type = "query"
                /\ variable_definitions[k + 1].multi
                /\ variable_definitions[k + 1].name = dimension_columns[k]
    /\ \A j \in 1..Len(posted) :
          LET templating == posted[j].dashboard.templating
          IN  /\ Len(templating) >= 1
              /\ templating[1].type = "textbox"
              /\ templating[1].name = "AnomalyThreshold"
              /\ \A k \in 2..Len(templating) :
                    /\ templating[k].type = "query"
                    /\ templating[k].multi
                    /\ templating[k].name = ColumnPool[k + 1]

\* C12 witness: create_dashboard is reached with two dimensions and three variables
C12_Witness ==
    /\ AtCreateDashboard
    /\ NDims = 2
    /\ Len(variable_definitions) = 3
    /\ variable_definitions[2].name = "Region"
    /\ variable_definitions[3].name = "Host"

\* C13: every query of a non-row descriptor, and of a non-row panel of a
\* published document, embeds as dt a duration string returned by extract_dt,
\* never an absent value ('let dt = None;'), whatever the engine answers to
\* the gap query.
C13_NoAbsentWindow ==
    /\ \A k \in 1..Len(queries_and_titles) :
          queries_and_titles[k].type # "row" =>
              /\ queries_and_titles[k].query[1] = "let dt = "
              /\ queries_and_titles[k].query[2] # "None"
    /\ \A j \in 1..Len(posted) :
          \A k \in 1..Len(posted[j].dashboard.panels) :
              posted[j].dashboard.panels[k].type # "row" =>
                  posted[j].dashboard.panels[k].query[2] # "None"

\* The extract_dt calls of the run, in the order made
ExtractDtCalls == SelectSeq(calls, LAMBDA c : c.op = "extract_dt")

\* The non-row descriptors accumulated so far, in the order appended
NonRowDescriptors == SelectSeq(queries_and_titles, LAMBDA item : item.type # "row")

\* C14 as stated: in one run extract_dt is invoked exactly once for the base
\* query, and every generated query of the run embeds the same dt.
C14_WindowComputedOnce ==
    AtCreateDashboard =>
        /\ Len(ExtractDtCalls) = 1
        /\ \A a, b \in 1..Len(NonRowDescriptors) :
              NonRowDescriptors[a].query[2] = NonRowDescriptors[b].query[2]

\* C14, as the code goes: dt is computed once per generated query, each time
\* for the same base query: the k-th non-row descriptor embeds the base query
\* of the run and the dt that extract_dt made of the engine's answer to the
\* k-th gap query, and so does the k-th non-row panel of a published document.
C14_WindowPerQuery ==
    /\ Planning =>
          /\ Len(ExtractDtCalls) = Len(NonRowDescriptors)
          /\ \A k \in 1..Len(NonRowDescriptors) :
                /\ NonRowDescriptors[k].query[2] = Str(extract_dt(ReplyOf(ExtractDtCalls[k])))
                /\ NonRowDescriptors[k].query[4] = base_query
    /\ \A j \in 1..Len(posted) :
          /\ Len(ExtractDtCalls) = Len(NonRowPanels(posted[j]))
          /\ \A k \in 1..Len(NonRowPanels(posted[j])) :
                /\ NonRowPanels(posted[j])[k].query[2] = Str(extract_dt(ReplyOf(ExtractDtCalls[k])))
                /\ NonRowPanels(posted[j])[k].query[4] = base_query

\* C14 witness: create_dashboard is reached after the engine answered the gap
\* query of the first panel with no row and that of the second with 90 seconds
C14_Witness ==
    /\ AtCreateDashboard
    /\ Len(ExtractDtCalls) >= 2
    /\ NonRowDescriptors[1].query[2] = "None"
    /\ NonRowDescriptors[2].query[2] = "1m 30s"

\* The newest timestamp of a series
Newest(series) == CHOOSE t \in {series[k] : k \in 1..Len(series)} :
                      \A k \in 1..Len(series) : series[k] <= t

\* How many rows of the series carry the timestamp t
RowsAt(series, t) == Cardinality({k \in 1..Len(series) : series[k] = t})

\* The timestamps of the series older than its newest
Older(series) == {series[k] : k \in 1..Len(series)} \ {Newest(series)}

\* The newest of a non-empty set of timestamps
NewestOf(ts) == CHOOSE t \in ts : \A u \in ts : u <= t

\* C15 as stated: for a series with at least two distinct timestamps whose two
\* newest rows carry the same timestamp, extract_dt returns the rendering of
\* the difference between that timestamp and the next older distinct one.
C15_GapOfDistinctTimestamps ==
    (/\ call.fn = "extract_dt_series"
     /\ ret.state = "returned"
     /\ Len(call.series) >= 2
     /\ RowsAt(call.series, Newest(call.series)) >= 2
     /\ Older(call.series) # {})
        => ret.value = C4_Rendering(Newest(call.series) - NewestOf(Older(call.series)))

\* C15, as the code goes: extract_dt returns the gap between the two newest
\* rows of the series: for a series of at least two rows, the rendering of
\* the difference between the newest timestamp and the next older one when
\* one row carries the newest timestamp, and the rendering of a zero gap,
\* "1d", when two or more rows carry it.
C15_GapOfNewestRows ==
    (call.fn = "extract_dt_series" /\ ret.state = "returned" /\ Len(call.series) >= 2) =>
        IF RowsAt(call.series, Newest(call.series)) >= 2
        THEN ret.value = "1d"
        ELSE ret.value = C4_Rendering(Newest(call.series) - NewestOf(Older(call.series)))

\* C15 witness: of three rows the two newest carry the same timestamp, 90
\* seconds after the third, and the result is "1d"
C15_Witness ==
    /\ call.fn = "extract_dt_series"
    /\ ret.state = "returned"
    /\ call.series = <<150, 60, 150>>
    /\ ret.value = "1d"

\* The title of the row the k-th entry of a descriptor or panel list is under
RowAbove(list, k) ==
    LET rows == {j \in 1..k : list[j].type = "row"}
    IN  IF rows = {} THEN None
        ELSE list[CHOOSE j \in rows : \A i \in rows : i <= j].title

\* The rows whose panels repeat over a dimension variable
RepeatingRows == {"Anomalies Score", "Series Decomposition"}

\* The query q carries the where clause on the placeholder of dimension d
FiltersOn(q, d) ==
    \E k \in 1..(Len(q) - 3) :
        /\ q[k] = "| where tostring("
        /\ q[k + 1] = d
        /\ q[k + 3] = Placeholder(d)

\* C16: a descriptor carries a repeat binding exactly when it was emitted
\* under the row 'Anomalies Score' or the row 'Series Decomposition'; the
\* binding is then the dimension whose placeholder its query filters on.
\* create_dashboard copies the binding unchanged, adding the horizontal
\* direction, and gives no repeat key to a row or to a panel without binding;
\* so a panel of a published document has a repeat key exactly under these
\* two rows.
C16_RepeatBinding ==
    /\ \A k \in 1..Len(queries_and_titles) :
          LET item == queries_and_titles[k]
          IN  item.type # "row" =>
                /\ Truthy(item.repeat) <=> RowAbove(queries_and_titles, k) \in RepeatingRows
                /\ Truthy(item.repeat) =>
                      /\ \E d \in 1..NDims : dimension_columns[d] = item.repeat
                      /\ FiltersOn(item.query, item.repeat)
    /\ AtCreateDashboard =>
          LET panels == dashboard_json(queries_and_titles, variable_definitions,
                                       dashboard_title, Setting("DATASOURCE_NAME"),
                                       Setting("DATABASE")).dashboard.panels
          IN  \A k \in 1..Len(queries_and_titles) :
                 LET item == queries_and_titles[k]
                 IN  IF item.type # "row" /\ Truthy(item.repeat)
                     THEN /\ panels[k].repeat = item.repeat
                          /\ panels[k].repeatDirection = "h"
                     ELSE "repeat" \notin DOMAIN panels[k]
    /\ \A j \in 1..Len(posted) :
          LET panels == posted[j].dashboard.panels
          IN  \A k \in 1..Len(panels) :
                 /\ "repeat" \in DOMAIN panels[k] <=>
                        (panels[k].type # "row" /\ RowAbove(panels, k) \in RepeatingRows)
                 /\ "repeat" \in DOMAIN panels[k] =>
                        /\ FiltersOn(panels[k].query, panels[k].repeat)
                        /\ panels[k].repeatDirection = "h"

\* C16 witness: a published document whose last panel, under the row 'Series
\* Decomposition', repeats over Host, and whose second panel does not repeat
C16_Witness ==
    /\ Len(posted) = 1
    /\ LET panels == posted[1].dashboard.panels
       IN  /\ Len(panels) = 16
           /\ RowAbove(panels, 16) = "Series Decomposition"
           /\ "repeat" \in DOMAIN panels[16]
           /\ panels[16].repeat = "Host"
           /\ panels[16].repeatDirection = "h"
           /\ "repeat" \notin DOMAIN panels[2]

\* C17: extract_dt is called once for each emitted non-row panel, in
\* emission order, and not for a row or a skipped variant: throughout the
\* planning the answered calls are as many as the non-row descriptors, so the
\* k-th panel is never there before the k-th call; a failed call is the last
\* one and has no panel; at create_dashboard the calls number 2 with no
\* dimension and 4 + 3n with n >= 1 dimensions.
C17_OneCallPerPanel ==
    /\ Planning =>
          /\ Len(SelectSeq(ExtractDtCalls, LAMBDA c : c.ok)) = Len(NonRowDescriptors)
          /\ \A k \in 1..Len(ExtractDtCalls) : ExtractDtCalls[k].ok
    /\ Len(NonRowDescriptors) <= Len(ExtractDtCalls)
    /\ \A k \in 1..Len(ExtractDtCalls) : ~ExtractDtCalls[k].ok => k = Len(ExtractDtCalls)
    /\ AtCreateDashboard =>
          Len(ExtractDtCalls) = (IF NDims = 0 THEN 2 ELSE 4 + 3 * NDims)

\* C17 witness: create_dashboard is reached with two dimensions after ten calls
C17_Witness ==
    /\ AtCreateDashboard
    /\ NDims = 2
    /\ Len(ExtractDtCalls) = 10
    /\ Len(NonRowDescriptors) = 10

====
